---- MODULE Spec2Model ----
(***************************************************************************)
(* clean-tmps.py: removal of aged entries below the configured temporary   *)
(* directories.  The model covers the script from the computation of       *)
(* THRESHOLD (line 101) to the end of the loop over tmp_dirs (line 171):   *)
(* the classifier process(), cache_timestamps(), the os.walk scan, the     *)
(* reversed drain of deferred_items and the replay of dir_times.           *)
(*                                                                         *)
(* Path strings are sequences of tokens: a token is the separator "/" or   *)
(* a name.  The file system maps a position (the sequence of names below   *)
(* the configured root) to a node.  Timestamps are whole seconds; the _ns  *)
(* fields of a stat result are the same instants.  Read accesses do not    *)
(* update access times (as on a noatime mount).                            *)
(***************************************************************************)
EXTENDS Integers, Sequences, FiniteSets, TLC

VARIABLES
    fs,             \* the file system: position -> node
    tmp_dirs,       \* daily_clean_tmps_dirs, split (line 107)
    ignore,         \* daily_clean_tmps_ignore, split (line 103)
    verbose,        \* daily_clean_tmps_verbose (line 106)
    pc,             \* position of the script
    root_i,         \* index in tmp_dirs of the root being processed
    dir_times,      \* the dict dir_times, in insertion order
    deferred_items, \* the list deferred_items
    walk_stack,     \* directories os.walk still has to list
    dir_path,       \* the directory os.walk yielded last
    items,          \* rest of chain(file_names, dir_names)
    cur_dirs,       \* dir_names of the directory yielded last
    drain_i,        \* number of deferred items still to drain
    replay_i,       \* index in dir_times of the next entry to replay
    out,            \* lines written to standard output
    faults,         \* number of injected OS failures so far
    last,           \* the last call of process(): stats, follow, action
    oplog,          \* history: every lstat, process(), unlink and rmdir on an entry
    pre,            \* history: directory times before the pass's first removal in it
    fs0             \* history: the file system before the run

vars == <<fs, tmp_dirs, ignore, verbose, pc, root_i, dir_times, deferred_items,
          walk_stack, dir_path, items, cur_dirs, drain_i, replay_i, out,
          faults, last, oplog, pre, fs0>>

----------------------------------------------------------------------------
(* Bounds of the model *)

\* retention in days (daily_clean_tmps_days)
Days == 1
\* entries below the root in the initial tree
MaxEntries == 2
\* injected OS failures per run
MaxFaults == 1
\* timestamps of the classifier's inputs range over THRESHOLD +- TimeSpread
TimeSpread == 1
\* symlinks the kernel follows before it gives up with ELOOP
SymloopMax == 4

\* time.time() at line 101, in seconds
StartTime == 200000

THRESHOLD == StartTime - Days * 24 * 60 * 60

\* the clock while the run mutates the file system
Now == StartTime

Old == THRESHOLD
New == THRESHOLD + 1

----------------------------------------------------------------------------
(* Names and path strings *)

SEP == "/"
RootName == "r"
VfsName == ".vfs_rsrc_streams_1"

\* the characters of a name, for fnmatch
NameChars(n) ==
    CASE n = "a" -> <<"a">>
      [] n = "b" -> <<"b">>
      [] n = VfsName -> <<".", "v", "f", "s", "_", "r", "s", "r", "c", "_",
                          "s", "t", "r", "e", "a", "m", "s", "_", "1">>
      [] OTHER -> <<n>>

\* b'.vfs_rsrc_streams_*' (line 105)
VfsPattern == <<".", "v", "f", "s", "_", "r", "s", "r", "c", "_",
                "s", "t", "r", "e", "a", "m", "s", "_", "*">>

\* fnmatch.fnmatchcase on character sequences: "*" and "?" (no bracket classes)
RECURSIVE GlobMatch(_, _)
GlobMatch(n, p) ==
    IF p = <<>> THEN n = <<>>
    ELSE IF Head(p) = "*"
         THEN GlobMatch(n, Tail(p)) \/ (n # <<>> /\ GlobMatch(Tail(n), p))
    ELSE IF Head(p) = "?"
         THEN n # <<>> /\ GlobMatch(Tail(n), Tail(p))
    ELSE n # <<>> /\ Head(n) = Head(p) /\ GlobMatch(Tail(n), Tail(p))

fnmatch(name, pattern) == GlobMatch(NameChars(name), pattern)

\* exclusions = ignore + [b'.vfs_rsrc_streams_*'] (lines 103-105)
exclusions == Append(ignore, VfsPattern)

\* a variant that forgets the pattern appended at line 105
is_excluded_configured_only(item_name) ==
    \E i \in 1..Len(ignore) : fnmatch(item_name, ignore[i])

is_excluded(item_name) ==
    \E i \in 1..Len(exclusions) : fnmatch(item_name, exclusions[i])

\* os.path.join(a, b) for a relative b
join(a, b) ==
    IF a = <<>> \/ a[Len(a)] = SEP THEN a \o b ELSE a \o <<SEP>> \o b

\* index of the last separator of p, 0 if none (bytes.rfind + 1)
RECURSIVE rfind_sep(_)
rfind_sep(p) ==
    IF p = <<>> THEN 0
    ELSE IF p[Len(p)] = SEP THEN Len(p)
    ELSE rfind_sep(SubSeq(p, 1, Len(p) - 1))

RECURSIVE rstrip_sep(_)
rstrip_sep(p) ==
    IF p # <<>> /\ p[Len(p)] = SEP THEN rstrip_sep(SubSeq(p, 1, Len(p) - 1)) ELSE p

\* os.path.dirname(p)
dirname(p) ==
    LET head == SubSeq(p, 1, rfind_sep(p))
    IN  IF head # <<>> /\ (\E k \in 1..Len(head) : head[k] # SEP)
        THEN rstrip_sep(head)
        ELSE head

----------------------------------------------------------------------------
(* The file system *)

\* positions below the root that an entry can occupy
Pos == { <<"a">>, <<"b">>, <<VfsName>>,
         <<"a", "a">>, <<"a", "b">>, <<VfsName, "a">>,
         <<"a", "a", "a">> }

RootPos == <<>>
AllPos == Pos \cup {RootPos}

\* positions a symlink of the initial tree can point at
LinkTargets == { <<"a">>, <<"b">> }

Parent(pos) == SubSeq(pos, 1, Len(pos) - 1)

Children(f, pos) ==
    { q \in Pos : Parent(q) = pos /\ Len(q) = Len(pos) + 1 /\ f[q].kind # "none" }

NoNode == [kind |-> "none", mtime |-> 0, ctime |-> 0, atime |-> 0, target |-> <<>>]

Node(k, m, c, a, t) == [kind |-> k, mtime |-> m, ctime |-> c, atime |-> a, target |-> t]

\* the components of a path string
Components(p) == SelectSeq(p, LAMBDA t : t # SEP)

PathOk(p) ==
    /\ Components(p) # <<>>
    /\ Head(Components(p)) = RootName
    /\ Tail(Components(p)) \in AllPos

\* the position a path string names (no symlink is followed)
PosOf(p) == Tail(Components(p))

\* a stat result; err = "ok" or an errno name
StatOk(n) == [err |-> "ok", kind |-> n.kind, mtime |-> n.mtime,
              ctime |-> n.ctime, atime |-> n.atime]
StatErr(e) == [err |-> e, kind |-> "none", mtime |-> 0, ctime |-> 0, atime |-> 0]

\* the kernel's symlink resolution from a position: [err, pos]
RECURSIVE Resolve(_, _, _)
Resolve(f, pos, n) ==
    IF f[pos].kind = "none" THEN [err |-> "ENOENT", pos |-> pos]
    ELSE IF f[pos].kind = "lnk"
         THEN IF n >= SymloopMax THEN [err |-> "ELOOP", pos |-> pos]
              ELSE Resolve(f, f[pos].target, n + 1)
    ELSE [err |-> "ok", pos |-> pos]

\* os.stat(p, follow_symlinks=False)
os_lstat(f, p) ==
    IF ~PathOk(p) \/ f[PosOf(p)].kind = "none" THEN StatErr("ENOENT")
    ELSE IF p[Len(p)] = SEP /\ f[PosOf(p)].kind # "dir" THEN StatErr("ENOTDIR")
    ELSE StatOk(f[PosOf(p)])

\* a variant of line 35 that passes follow_symlinks=False
os_stat_nofollow(f, p) ==
    IF ~PathOk(p) \/ f[PosOf(p)].kind = "none" THEN StatErr("ENOENT")
    ELSE IF p[Len(p)] = SEP /\ f[PosOf(p)].kind # "dir" THEN StatErr("ENOTDIR")
    ELSE StatOk(f[PosOf(p)])

\* os.stat(p), following symlinks
os_stat(f, p) ==
    IF ~PathOk(p) THEN StatErr("ENOENT")
    ELSE LET r == Resolve(f, PosOf(p), 0)
         IN  IF r.err # "ok" THEN StatErr(r.err)
             ELSE IF p[Len(p)] = SEP /\ f[r.pos].kind # "dir" THEN StatErr("ENOTDIR")
             ELSE StatOk(f[r.pos])

\* the parent directory's mtime and ctime after an entry is removed from it
Touch(f, d) == [f EXCEPT ![d].mtime = Now, ![d].ctime = Now]

\* os.unlink(p): [err, fs]
os_unlink(f, p) ==
    IF ~PathOk(p) \/ f[PosOf(p)].kind = "none" THEN [err |-> "ENOENT", fs |-> f]
    ELSE IF f[PosOf(p)].kind = "dir" THEN [err |-> "EPERM", fs |-> f]
    ELSE [err |-> "ok",
          fs |-> Touch([f EXCEPT ![PosOf(p)] = NoNode], Parent(PosOf(p)))]

\* os.rmdir(p): [err, fs]; the directory that holds the root is not part of fs
os_rmdir(f, p) ==
    IF ~PathOk(p) \/ f[PosOf(p)].kind = "none" THEN [err |-> "ENOENT", fs |-> f]
    ELSE IF f[PosOf(p)].kind # "dir" THEN [err |-> "ENOTDIR", fs |-> f]
    ELSE IF Children(f, PosOf(p)) # {} THEN [err |-> "ENOTEMPTY", fs |-> f]
    ELSE IF PosOf(p) = RootPos THEN [err |-> "ok", fs |-> [f EXCEPT ![RootPos] = NoNode]]
    ELSE [err |-> "ok",
          fs |-> Touch([f EXCEPT ![PosOf(p)] = NoNode], Parent(PosOf(p)))]

\* os.utime(p, ns=times), times = <<atime, mtime>>: [err, fs]
os_utime(f, p, times) ==
    IF ~PathOk(p) THEN [err |-> "ENOENT", fs |-> f]
    ELSE LET r == Resolve(f, PosOf(p), 0)
         IN  IF r.err # "ok" THEN [err |-> r.err, fs |-> f]
             ELSE [err |-> "ok",
                   fs |-> [f EXCEPT ![r.pos].atime = times[1],
                                    ![r.pos].mtime = times[2],
                                    ![r.pos].ctime = Now]]

\* os.path.exists(p): False on any OSError of the following stat
os_path_exists(f, p) == os_stat(f, p).err = "ok"

\* os.path.islink(p)
os_path_islink(f, p) == os_lstat(f, p).err = "ok" /\ os_lstat(f, p).kind = "lnk"

----------------------------------------------------------------------------
(* class Action and process(), lines 14-55 *)

skip == "skip"
unlink == "unlink"
defer_rmdir_check == "defer_rmdir_check"
defer_unsymlink_check == "defer_unsymlink_check"
\* an OSError that leaves process()
raised == "raise"

S_ISREG(mode) == mode = "reg"
S_ISDIR(mode) == mode = "dir"
S_ISLNK(mode) == mode = "lnk"
S_ISFIFO(mode) == mode = "fifo"
\* a variant of the type test of lines 26-28 that lets every special file pass
S_ISCHR_or_special(mode) == mode \notin {"reg", "dir", "lnk", "fifo"}

S_ISCHR(mode) == mode = "chr"

\* variants of lines 46-48: mtime alone for every type; all three for every type
eligible_mtime_only(stats) == <<stats.mtime>>

eligible_all_three(stats) == <<stats.mtime, stats.ctime, stats.atime>>

\* lines 46-48: the timestamps that decide
eligible_timestamps(stats) ==
    IF ~S_ISDIR(stats.kind)
    THEN <<stats.mtime, stats.ctime, stats.atime>>
    ELSE <<stats.mtime>>

\* a variant of line 49 with any() in the place of all()
age_action_any(stats) ==
    LET timestamps == eligible_timestamps(stats)
    IN  IF \E i \in 1..Len(timestamps) : timestamps[i] <= THRESHOLD
        THEN IF S_ISDIR(stats.kind) THEN defer_rmdir_check ELSE unlink
        ELSE skip

\* lines 49-55
age_action(stats) ==
    LET timestamps == eligible_timestamps(stats)
    IN  IF \A i \in 1..Len(timestamps) : timestamps[i] <= THRESHOLD
        THEN IF S_ISDIR(stats.kind) THEN defer_rmdir_check ELSE unlink
        ELSE skip

\* lines 36-39: only FileNotFoundError is caught around the following stat
follow_caught(err) == err = "ENOENT"

\* a variant of lines 43-45 that hands the target's action on unchanged
target_action_unchanged(target_action) == target_action

\* lines 43-45
target_to_link_action(target_action) ==
    IF target_action = defer_rmdir_check THEN defer_unsymlink_check ELSE target_action

\* process(path, stats); follow is what os.stat(path, follow_symlinks=True) gives
RECURSIVE process(_, _)
process(stats, follow) ==
    IF ~(S_ISREG(stats.kind) \/ S_ISDIR(stats.kind) \/ S_ISLNK(stats.kind)
         \/ S_ISFIFO(stats.kind) \/ S_ISCHR(stats.kind))
    THEN skip
    ELSE IF S_ISLNK(stats.kind)
    THEN IF follow.err # "ok"
         THEN IF follow_caught(follow.err) THEN unlink ELSE raised
         ELSE target_to_link_action(process(follow, StatErr("ENOENT")))
    ELSE age_action(stats)

\* cache_timestamps(timestamps, path), lines 57-60; st is os.stat(path).
\* [err, timestamps]
HasKey(timestamps, path) == \E i \in 1..Len(timestamps) : timestamps[i].path = path

\* a variant of lines 58-60 without the membership test: every call stats the
\* path and stores what it sees
cache_timestamps_overwrite(timestamps, path, st) ==
    IF st.err # "ok" THEN [err |-> st.err, timestamps |-> timestamps]
    ELSE IF HasKey(timestamps, path)
    THEN [err |-> "ok",
          timestamps |-> [i \in 1..Len(timestamps) |->
                            IF timestamps[i].path = path
                            THEN [path |-> path, times |-> <<st.atime, st.mtime>>]
                            ELSE timestamps[i]]]
    ELSE [err |-> "ok",
          timestamps |-> Append(timestamps,
                                [path |-> path, times |-> <<st.atime, st.mtime>>])]

cache_timestamps(timestamps, path, st) ==
    IF HasKey(timestamps, path) THEN [err |-> "ok", timestamps |-> timestamps]
    ELSE IF st.err # "ok" THEN [err |-> st.err, timestamps |-> timestamps]
    ELSE [err |-> "ok",
          timestamps |-> Append(timestamps,
                                [path |-> path, times |-> <<st.atime, st.mtime>>])]

----------------------------------------------------------------------------
(* Initial states: the configuration and the tree below the root *)

\* spellings of the one configured root
RootSpellings == { <<RootName>>, <<RootName, SEP>> }

TmpDirChoices == { <<>> } \cup { <<s>> : s \in RootSpellings }

\* daily_clean_tmps_ignore: empty, or the one pattern b*
IgnoreChoices == { <<>>, << <<"b", "*">> >> }

FileStamps == { <<Old, Old, Old>>, <<New, New, New>>, <<Old, New, New>> }
DirStamps == { <<Old, New, New>>, <<New, Old, Old>> }
LinkStamps == { <<New, New, New>> }

NodeChoices ==
    { Node("reg", t[1], t[2], t[3], <<>>) : t \in FileStamps }
    \cup { Node("dir", t[1], t[2], t[3], <<>>) : t \in DirStamps }
    \cup { Node("lnk", t[1], t[2], t[3], g) : t \in LinkStamps, g \in LinkTargets }
    \cup { Node("sock", Old, Old, Old, <<>>) }

\* the root is an aged directory
RootNodes == { Node("dir", Old, New, New, <<>>) }

\* sets of occupied positions: every parent is occupied too
Shapes ==
    { S \in SUBSET Pos :
        /\ Cardinality(S) <= MaxEntries
        /\ \A q \in S : Len(q) > 1 => Parent(q) \in S }

\* trees: the parent of every entry is a directory
Trees ==
    UNION { { [q \in AllPos |-> IF q = RootPos THEN rn
                                ELSE IF q \in S THEN g[q] ELSE NoNode] :
                g \in { h \in [S -> NodeChoices] :
                          \A q \in S : Len(q) > 1 => h[Parent(q)].kind = "dir" },
                rn \in RootNodes }
            : S \in Shapes }

NoTimes == <<>>
NoCall == [stats |-> StatErr("none"), follow |-> StatErr("none"), action |-> "none",
           path |-> <<>>]

Init ==
    /\ fs \in Trees
    /\ tmp_dirs \in TmpDirChoices
    /\ ignore \in IgnoreChoices
    /\ verbose \in BOOLEAN
    /\ pc = "start"
    /\ root_i = 0
    /\ dir_times = <<>>
    /\ deferred_items = <<>>
    /\ walk_stack = <<>>
    /\ dir_path = <<>>
    /\ items = <<>>
    /\ cur_dirs = <<>>
    /\ drain_i = 0
    /\ replay_i = 0
    /\ out = <<>>
    /\ faults = 0
    /\ last = NoCall
    /\ oplog = <<>>
    /\ pre = [q \in AllPos |-> NoTimes]
    /\ fs0 = fs

----------------------------------------------------------------------------
(* Helpers of the steps *)

\* the failures that may be injected at the sites a step reaches
Inject(sites) == {"none"} \cup (IF faults < MaxFaults THEN sites ELSE {})

Count(flt) == IF flt = "none" THEN faults ELSE faults + 1

\* all orders in which scandir can return the names of S
Orders(S) ==
    { o \in [1..Cardinality(S) -> S] : \A i, j \in 1..Cardinality(S) : o[i] = o[j] => i = j }

\* DirEntry.is_dir(): follows symlinks, False on any error
entry_is_dir(f, pos) ==
    LET r == Resolve(f, pos, 0) IN r.err = "ok" /\ f[r.pos].kind = "dir"

\* history: remember the times of directory d before the first removal in it
RecordPre(pr, f, d) ==
    IF pr[d] = NoTimes THEN [pr EXCEPT ![d] = <<f[d].atime, f[d].mtime>>] ELSE pr

\* history: one system call on an entry, with what the entry was at that moment
LogEntry(op, path, f, err, phase) ==
    [op |-> op, path |-> path, pos |-> PosOf(path), kind |-> f[PosOf(path)].kind,
     ok |-> (err = "ok"), phase |-> phase, root |-> root_i,
     empty |-> (Children(f, PosOf(path)) = {}),
     resolves |-> os_path_exists(f, path)]

\* history: one call of process() at line 130, with its inputs and its result
Classified(path, f, stats, follow, action) ==
    [op |-> "process", path |-> path, pos |-> PosOf(path),
     kind |-> f[PosOf(path)].kind, ok |-> (action # raised), phase |-> "scan",
     root |-> root_i, stats |-> stats, follow |-> follow, action |-> action]

----------------------------------------------------------------------------
(* The run, lines 109-171 *)

\* lines 109-110: the header
Start ==
    /\ pc = "start"
    /\ out' = out \o <<"", "Removing old temporary files:">>
    /\ root_i' = 1
    /\ pc' = "root"
    /\ UNCHANGED <<fs, tmp_dirs, ignore, verbose, dir_times, deferred_items,
                   walk_stack, dir_path, items, cur_dirs, drain_i, replay_i,
                   faults, last, oplog, pre, fs0>>

\* a variant of lines 107-112 that falls back to the root r when
\* daily_clean_tmps_dirs is empty
NextRoot_default_root ==
    LET roots == IF tmp_dirs = <<>> THEN << <<RootName>> >> ELSE tmp_dirs
    IN  /\ pc = "root"
        /\ IF root_i > Len(roots)
           THEN /\ pc' = "done"
                /\ UNCHANGED <<dir_times, deferred_items, walk_stack, pre>>
           ELSE /\ pc' = "scan"
                /\ dir_times' = <<>>
                /\ deferred_items' = <<>>
                /\ walk_stack' = <<roots[root_i]>>
                /\ pre' = [q \in AllPos |-> NoTimes]
        /\ dir_path' = <<>>
        /\ items' = <<>>
        /\ cur_dirs' = <<>>
        /\ UNCHANGED <<fs, tmp_dirs, ignore, verbose, root_i, drain_i, replay_i, out,
                       faults, last, oplog, fs0>>

\* a variant of lines 112-119 that treats the root like one of its entries and
\* enqueues it for the rmdir of the drain
NextRoot_enqueue_root ==
    /\ pc = "root"
    /\ IF root_i > Len(tmp_dirs)
       THEN /\ pc' = "done"
            /\ UNCHANGED <<dir_times, deferred_items, walk_stack, pre>>
       ELSE /\ pc' = "scan"
            /\ dir_times' = <<>>
            /\ deferred_items' = <<[path |-> tmp_dirs[root_i],
                                    action |-> defer_rmdir_check]>>
            /\ walk_stack' = <<tmp_dirs[root_i]>>
            /\ pre' = [q \in AllPos |-> NoTimes]
    /\ dir_path' = <<>>
    /\ items' = <<>>
    /\ cur_dirs' = <<>>
    /\ UNCHANGED <<fs, tmp_dirs, ignore, verbose, root_i, drain_i, replay_i, out,
                   faults, last, oplog, fs0>>

\* lines 112-119: the next root, with a fresh dir_times and deferred_items
NextRoot ==
    /\ pc = "root"
    /\ IF root_i > Len(tmp_dirs)
       THEN /\ pc' = "done"
            /\ UNCHANGED <<dir_times, deferred_items, walk_stack, pre>>
       ELSE /\ pc' = "scan"
            /\ dir_times' = <<>>
            /\ deferred_items' = <<>>
            /\ walk_stack' = <<tmp_dirs[root_i]>>
            /\ pre' = [q \in AllPos |-> NoTimes]
    /\ dir_path' = <<>>
    /\ items' = <<>>
    /\ cur_dirs' = <<>>
    /\ UNCHANGED <<fs, tmp_dirs, ignore, verbose, root_i, drain_i, replay_i, out,
                   faults, last, oplog, fs0>>

\* a variant of line 119 with followlinks=True: every name of dir_names
descend_followlinks(f, top, dirs) ==
    LET RECURSIVE sel(_)
        sel(ds) ==
            IF ds = <<>> THEN <<>>
            ELSE <<join(top, <<Head(ds)>>)>> \o sel(Tail(ds))
    IN  sel(dirs)

\* the directories os.walk descends into after the body has handled dir_path:
\* every name of dir_names that is not a symlink now
descend(f, top, dirs) ==
    LET RECURSIVE sel(_)
        sel(ds) ==
            IF ds = <<>> THEN <<>>
            ELSE IF os_path_islink(f, join(top, <<Head(ds)>>)) THEN sel(Tail(ds))
            ELSE <<join(top, <<Head(ds)>>)>> \o sel(Tail(ds))
    IN  sel(dirs)

pending_dirs == descend(fs, dir_path, cur_dirs) \o walk_stack

\* os.walk (line 119) lists the next directory; a scandir error ends that
\* branch of the walk silently.  (The singleton quantifiers name a value that
\* is computed once.)
WalkNext ==
    /\ pc = "scan"
    /\ items = <<>>
    /\ pending_dirs # <<>>
    /\ \E pending \in {pending_dirs} :
       \E top \in {Head(pending)} :
       \E isdir \in {os_stat(fs, top).err = "ok" /\ os_stat(fs, top).kind = "dir"} :
           \E flt \in Inject(IF isdir THEN {"scandir"} ELSE {}) :
             /\ faults' = Count(flt)
             /\ walk_stack' = Tail(pending)
             /\ IF ~isdir \/ flt = "scandir"
                THEN /\ items' = <<>>
                     /\ cur_dirs' = <<>>
                     /\ UNCHANGED dir_path
                ELSE \E ents \in {{ q[Len(q)] : q \in Children(fs, PosOf(top)) }} :
                     \E dnames \in {{ n \in ents : entry_is_dir(fs, Append(PosOf(top), n)) }} :
                         \E dord \in Orders(dnames), ford \in Orders(ents \ dnames) :
                           /\ items' = ford \o dord
                           /\ cur_dirs' = dord
                           /\ dir_path' = top
    /\ UNCHANGED <<fs, tmp_dirs, ignore, verbose, pc, root_i, dir_times,
                   deferred_items, drain_i, replay_i, out, last, oplog, pre, fs0>>

\* lines 120-144 for one item: the values after the body
scan_item(flt) ==
    LET item_name == Head(items)
        item_path == join(dir_path, <<item_name>>)
        same == [fs |-> fs, dir_times |-> dir_times, deferred_items |-> deferred_items,
                 out |-> out, pc |-> pc, last |-> last, oplog |-> oplog, pre |-> pre]
        stats == IF flt = "lstat" THEN StatErr("EACCES") ELSE os_lstat(fs, item_path)
        statted == [same EXCEPT !.oplog = Append(oplog,
                                    LogEntry("lstat", item_path, fs, stats.err, "scan"))]
        follow == IF flt = "stat" THEN StatErr("EACCES") ELSE os_stat(fs, item_path)
        action == process(stats, follow)
        called == [statted EXCEPT !.last = [stats |-> stats, follow |-> follow,
                                            action |-> action, path |-> item_path],
                                  !.oplog = Append(statted.oplog,
                                      Classified(item_path, fs, stats, follow, action))]
        cst == IF flt = "cache" THEN StatErr("EACCES") ELSE os_stat(fs, dir_path)
        cached == cache_timestamps(dir_times, dir_path, cst)
        ul == IF flt = "unlink" THEN [err |-> "EACCES", fs |-> fs]
              ELSE os_unlink(fs, item_path)
        tried == Append(called.oplog, LogEntry("unlink", item_path, fs, ul.err, "scan"))
    IN  IF is_excluded(item_name) THEN same
        ELSE IF stats.err # "ok" THEN statted
        ELSE IF action = raised THEN [called EXCEPT !.pc = "crashed"]
        ELSE IF action = unlink
        THEN IF cached.err # "ok" THEN called
             ELSE IF ul.err # "ok"
             THEN [called EXCEPT !.dir_times = cached.timestamps,
                                 !.oplog = tried]
             ELSE [called EXCEPT !.dir_times = cached.timestamps,
                                 !.fs = ul.fs,
                                 !.pre = RecordPre(pre, fs, Parent(PosOf(item_path))),
                                 !.oplog = tried,
                                 !.out = IF verbose THEN Append(out, item_path) ELSE out]
        ELSE IF action \in {defer_rmdir_check, defer_unsymlink_check}
        THEN [called EXCEPT !.deferred_items =
                                Append(deferred_items,
                                       [path |-> item_path, action |-> action])]
        ELSE called

\* the system calls the body makes for the head item, as injection sites
scan_sites ==
    LET item_name == Head(items)
        item_path == join(dir_path, <<item_name>>)
        stats == os_lstat(fs, item_path)
        action == process(stats, os_stat(fs, item_path))
    IN  IF is_excluded(item_name) THEN {}
        ELSE {"lstat"}
             \cup (IF stats.err = "ok" /\ S_ISLNK(stats.kind) THEN {"stat"} ELSE {})
             \cup (IF stats.err = "ok" /\ action = unlink
                   THEN (IF HasKey(dir_times, dir_path) THEN {} ELSE {"cache"})
                        \cup {"unlink"}
                   ELSE {})

ScanItem ==
    /\ pc = "scan"
    /\ items # <<>>
    /\ \E flt \in Inject(scan_sites) :
         \E r \in {scan_item(flt)} :
             /\ faults' = Count(flt)
             /\ fs' = r.fs
             /\ dir_times' = r.dir_times
             /\ deferred_items' = r.deferred_items
             /\ out' = r.out
             /\ pc' = r.pc
             /\ last' = r.last
             /\ oplog' = r.oplog
             /\ pre' = r.pre
    /\ items' = Tail(items)
    /\ UNCHANGED <<tmp_dirs, ignore, verbose, root_i, walk_stack, dir_path, cur_dirs,
                   drain_i, replay_i, fs0>>

\* the walk is exhausted: the drain starts at the end of deferred_items (line 149)
EndScan ==
    /\ pc = "scan"
    /\ items = <<>>
    /\ pending_dirs = <<>>
    /\ pc' = "drain"
    /\ drain_i' = Len(deferred_items)
    /\ walk_stack' = <<>>
    /\ cur_dirs' = <<>>
    /\ UNCHANGED <<fs, tmp_dirs, ignore, verbose, root_i, dir_times, deferred_items,
                   dir_path, items, replay_i, out, faults, last, oplog, pre, fs0>>


\* a variant of line 149 that iterates deferred_items front to back
forward_item(n) == deferred_items[Len(deferred_items) - n + 1]

\* reversed(deferred_items), line 149: the item handled when n items are left
reversed_item(n) == deferred_items[n]

\* lines 149-165 for one deferred item: the values after the body
drain_item(flt) ==
    LET item == reversed_item(drain_i)
        path == item.path
        action == item.action
        same == [fs |-> fs, dir_times |-> dir_times, out |-> out, pc |-> pc,
                 oplog |-> oplog, pre |-> pre]
        cst == IF flt = "cache" THEN StatErr("EACCES") ELSE os_stat(fs, dirname(path))
        cached == cache_timestamps(dir_times, dirname(path), cst)
        kept == [same EXCEPT !.dir_times = cached.timestamps]
        rd == IF flt = "rmdir" THEN [err |-> "EACCES", fs |-> fs] ELSE os_rmdir(fs, path)
        exists == IF flt = "exists" THEN FALSE ELSE os_path_exists(fs, path)
        ul == IF flt = "unlink" THEN [err |-> "EACCES", fs |-> fs] ELSE os_unlink(fs, path)
        reported == IF verbose THEN Append(out, path) ELSE out
    IN  IF cached.err # "ok" THEN [same EXCEPT !.pc = "crashed"]
        ELSE IF action = defer_rmdir_check
        THEN IF rd.err # "ok"
             THEN [kept EXCEPT !.oplog = Append(oplog,
                                   LogEntry("rmdir", path, fs, rd.err, "drain"))]
             ELSE [kept EXCEPT !.fs = rd.fs,
                               !.pre = RecordPre(pre, fs, Parent(PosOf(path))),
                               !.oplog = Append(oplog,
                                   LogEntry("rmdir", path, fs, rd.err, "drain")),
                               !.out = reported]
        ELSE IF action = defer_unsymlink_check
        THEN IF exists THEN [kept EXCEPT !.out = reported]
             ELSE IF ul.err # "ok"
             THEN [kept EXCEPT !.oplog = Append(oplog,
                                   LogEntry("unlink", path, fs, ul.err, "drain"))]
             ELSE [kept EXCEPT !.fs = ul.fs,
                               !.pre = RecordPre(pre, fs, Parent(PosOf(path))),
                               !.oplog = Append(oplog,
                                   LogEntry("unlink", path, fs, ul.err, "drain")),
                               !.out = reported]
        ELSE kept

\* the system calls the drain makes for the current item, as injection sites
drain_sites ==
    LET item == reversed_item(drain_i)
    IN  (IF HasKey(dir_times, dirname(item.path)) THEN {} ELSE {"cache"})
        \cup (IF item.action = defer_rmdir_check THEN {"rmdir"} ELSE {})
        \cup (IF item.action = defer_unsymlink_check
              THEN {"exists"}
                   \cup (IF os_path_exists(fs, item.path) THEN {} ELSE {"unlink"})
              ELSE {})

DrainItem ==
    /\ pc = "drain"
    /\ drain_i > 0
    /\ \E flt \in Inject(drain_sites) :
         \E r \in {drain_item(flt)} :
             /\ faults' = Count(flt)
             /\ fs' = r.fs
             /\ dir_times' = r.dir_times
             /\ out' = r.out
             /\ pc' = r.pc
             /\ oplog' = r.oplog
             /\ pre' = r.pre
    /\ drain_i' = drain_i - 1
    /\ UNCHANGED <<tmp_dirs, ignore, verbose, root_i, deferred_items, walk_stack,
                   dir_path, items, cur_dirs, replay_i, last, fs0>>

\* the drain is exhausted: the replay starts (line 167)
EndDrain ==
    /\ pc = "drain"
    /\ drain_i = 0
    /\ pc' = "replay"
    /\ replay_i' = 1
    /\ UNCHANGED <<fs, tmp_dirs, ignore, verbose, root_i, dir_times, deferred_items,
                   walk_stack, dir_path, items, cur_dirs, drain_i, out, faults, last,
                   oplog, pre, fs0>>

\* lines 167-171 for one entry of dir_times
replay_item(flt) ==
    LET e == dir_times[replay_i]
        ut == IF flt = "utime" THEN [err |-> "EACCES", fs |-> fs]
              ELSE os_utime(fs, e.path, e.times)
    IN  IF ut.err # "ok" THEN fs ELSE ut.fs

ReplayItem ==
    /\ pc = "replay"
    /\ replay_i <= Len(dir_times)
    /\ \E flt \in Inject({"utime"}) :
         /\ faults' = Count(flt)
         /\ fs' = replay_item(flt)
    /\ replay_i' = replay_i + 1
    /\ UNCHANGED <<tmp_dirs, ignore, verbose, pc, root_i, dir_times, deferred_items,
                   walk_stack, dir_path, items, cur_dirs, drain_i, out, last, oplog,
                   pre, fs0>>

\* the replay is exhausted: the loop over tmp_dirs continues (line 112)
EndReplay ==
    /\ pc = "replay"
    /\ replay_i > Len(dir_times)
    /\ pc' = "root"
    /\ root_i' = root_i + 1
    /\ UNCHANGED <<fs, tmp_dirs, ignore, verbose, dir_times, deferred_items,
                   walk_stack, dir_path, items, cur_dirs, drain_i, replay_i, out,
                   faults, last, oplog, pre, fs0>>

Next ==
    \/ Start
    \/ NextRoot
    \/ WalkNext
    \/ ScanItem
    \/ EndScan
    \/ DrainItem
    \/ EndDrain
    \/ ReplayItem
    \/ EndReplay

Spec == Init /\ [][Next]_vars

\* the runs over the root r that report nothing: the walk, the drain and the
\* replay do not depend on the verbose flag or on the spelling of the root
InitQuiet == Init /\ tmp_dirs = << <<RootName>> >> /\ verbose = FALSE

SpecQuiet == InitQuiet /\ [][Next]_vars

\* the runs in which daily_clean_tmps_dirs names the same root twice: the loop
\* of line 112 makes a second pass over the tree the first pass has left
InitTwice ==
    /\ fs \in Trees
    /\ tmp_dirs = << <<RootName>>, <<RootName>> >>
    /\ ignore \in IgnoreChoices
    /\ verbose \in BOOLEAN
    /\ pc = "start"
    /\ root_i = 0
    /\ dir_times = <<>>
    /\ deferred_items = <<>>
    /\ walk_stack = <<>>
    /\ dir_path = <<>>
    /\ items = <<>>
    /\ cur_dirs = <<>>
    /\ drain_i = 0
    /\ replay_i = 0
    /\ out = <<>>
    /\ faults = 0
    /\ last = NoCall
    /\ oplog = <<>>
    /\ pre = [q \in AllPos |-> NoTimes]
    /\ fs0 = fs

SpecTwice == InitTwice /\ [][Next]_vars

TypeOK ==
    /\ pc \in {"start", "root", "scan", "drain", "replay", "done", "crashed"}
    /\ faults \in 0..MaxFaults
    /\ \A q \in Pos : fs[q].kind # "none" => fs[Parent(q)].kind = "dir"

----------------------------------------------------------------------------
(* The classifier alone: process() applied to every stat result within the *)
(* bounds, the outcome of the following stat being an input                *)

Kinds == {"reg", "dir", "lnk", "fifo", "chr", "sock", "blk"}

Stamps == (THRESHOLD - TimeSpread)..(THRESHOLD + TimeSpread)

StatInputs(kinds) ==
    { [err |-> "ok", kind |-> k, mtime |-> m, ctime |-> c, atime |-> a] :
        k \in kinds, m \in Stamps, c \in Stamps, a \in Stamps }

\* errno values of a failed following stat
FollowErrors == {"ENOENT", "ELOOP", "EACCES", "ENOTDIR"}

\* what os.stat(path, follow_symlinks=True) can give: never a symlink
FollowInputs == { StatErr(e) : e \in FollowErrors } \cup StatInputs(Kinds \ {"lnk"})

InitProcess ==
    /\ \E st \in StatInputs(Kinds) :
         \E fo \in (IF st.kind = "lnk" THEN FollowInputs ELSE {StatErr("none")}) :
            last = [stats |-> st, follow |-> fo, action |-> "none", path |-> <<>>]
    /\ pc = "classify"
    /\ fs = [q \in AllPos |-> IF q = RootPos THEN Node("dir", Old, New, New, <<>>)
                                ELSE NoNode]
    /\ tmp_dirs = <<>>
    /\ ignore = <<>>
    /\ verbose = FALSE
    /\ root_i = 0
    /\ dir_times = <<>>
    /\ deferred_items = <<>>
    /\ walk_stack = <<>>
    /\ dir_path = <<>>
    /\ items = <<>>
    /\ cur_dirs = <<>>
    /\ drain_i = 0
    /\ replay_i = 0
    /\ out = <<>>
    /\ faults = 0
    /\ oplog = <<>>
    /\ pre = [q \in AllPos |-> NoTimes]
    /\ fs0 = fs

\* line 130: action = process(item_path, stats)
Classify ==
    /\ pc = "classify"
    /\ last' = [last EXCEPT !.action = process(last.stats, last.follow)]
    /\ pc' = "classified"
    /\ UNCHANGED <<fs, tmp_dirs, ignore, verbose, root_i, dir_times, deferred_items,
                   walk_stack, dir_path, items, cur_dirs, drain_i, replay_i, out,
                   faults, oplog, pre, fs0>>

NextProcess == Classify

SpecProcess == InitProcess /\ [][NextProcess]_vars

\* the runs and the classifier's unit cases together
SpecAll == (Init \/ InitProcess) /\ [][Next \/ NextProcess]_vars

----------------------------------------------------------------------------
(* Properties *)

\* the pass over a root has ended: scan, drain and replay are done
PassEnded == pc \in {"root", "done"} /\ root_i > 1

CurRoot == IF pc \in {"root", "done"} THEN root_i - 1 ELSE root_i

IsProperDescendant(q, p) == Len(q) > Len(p) /\ SubSeq(q, 1, Len(p)) = p

IsRemoval(e) == e.op \in {"unlink", "rmdir"}

\* the index of a path in deferred_items, 0 if it is not there
DeferredIndex(path) ==
    IF \E k \in 1..Len(deferred_items) : deferred_items[k].path = path
    THEN CHOOSE k \in 1..Len(deferred_items) : deferred_items[k].path = path
    ELSE 0

\* C2: deferred-drain ordering.  No deferred item is handled while the scan
\* of its root is running; the drain handles the deferred items in the reverse
\* of the order of deferred_items; and no removal of a proper descendant of a
\* directory P (immediate or deferred) is attempted after the rmdir of P.
C2_ChildrenBeforeParents ==
    /\ pc = "scan" =>
          \A i \in 1..Len(oplog) : oplog[i].root = root_i => oplog[i].phase = "scan"
    /\ \A i, j \in 1..Len(oplog) :
          (/\ i < j
           /\ oplog[i].root = CurRoot /\ oplog[j].root = CurRoot
           /\ oplog[i].phase = "drain" /\ oplog[j].phase = "drain")
          => DeferredIndex(oplog[i].path) > DeferredIndex(oplog[j].path)
    /\ \A i, j \in 1..Len(oplog) :
          (/\ oplog[i].root = oplog[j].root
           /\ oplog[i].op = "rmdir"
           /\ IsRemoval(oplog[j])
           /\ IsProperDescendant(oplog[j].pos, oplog[i].pos))
          => j < i

\* a directory and a deferred descendant of it were both removed, the
\* descendant first
C2_Witness ==
    /\ PassEnded
    /\ \E i, j \in 1..Len(oplog) :
          /\ i < j
          /\ oplog[i].phase = "drain" /\ oplog[i].ok
          /\ oplog[j].op = "rmdir" /\ oplog[j].ok
          /\ IsProperDescendant(oplog[i].pos, oplog[j].pos)

\* C3: best-effort error policy.  Whatever entry-level OS error occurs (here:
\* only those the tree itself produces, no injected failure), the run never
\* aborts.
C3_RunNeverAborts == faults = 0 => pc # "crashed"

\* C4: a symlink whose following stat does not reach an existing target
\* (missing target or link cycle) is classified unlink, without an error.
C4_UnreachableTargetUnlinked ==
    (faults = 0 /\ last.stats.kind = "lnk" /\ last.follow.err # "ok")
        => last.action = unlink

AllOld(st) == st.mtime <= THRESHOLD /\ st.ctime <= THRESHOLD /\ st.atime <= THRESHOLD

\* C5: a regular file, named pipe or character device is classified unlink
\* iff mtime, ctime and atime are all <= THRESHOLD, else skip; never deferred.
C5_FileRule ==
    (pc = "classified" /\ last.stats.kind \in {"reg", "fifo", "chr"}) =>
        /\ last.action = unlink <=> AllOld(last.stats)
        /\ last.action = skip <=> ~AllOld(last.stats)

\* a pipe whose three timestamps are exactly THRESHOLD is unlinked
C5_Witness ==
    /\ pc = "classified"
    /\ last.stats.kind = "fifo"
    /\ last.stats.mtime = THRESHOLD
    /\ last.stats.ctime = THRESHOLD
    /\ last.stats.atime = THRESHOLD
    /\ last.action = unlink

\* C6: a directory is classified defer_rmdir_check iff its mtime <= THRESHOLD,
\* whatever its atime and ctime, else skip; never unlink.
C6_DirectoryRule ==
    (pc = "classified" /\ last.stats.kind = "dir") =>
        /\ last.action = defer_rmdir_check <=> last.stats.mtime <= THRESHOLD
        /\ last.action = skip <=> last.stats.mtime > THRESHOLD

\* a directory with mtime = THRESHOLD and recent atime and ctime is deferred
C6_Witness ==
    /\ pc = "classified"
    /\ last.stats.kind = "dir"
    /\ last.stats.mtime = THRESHOLD
    /\ last.stats.ctime > THRESHOLD
    /\ last.stats.atime > THRESHOLD
    /\ last.action = defer_rmdir_check

\* what a symlink to a resolved target t is to be classified
LinkExpected(t) ==
    IF t.kind = "dir"
    THEN IF t.mtime <= THRESHOLD THEN defer_unsymlink_check ELSE skip
    ELSE IF t.kind \in {"reg", "fifo", "chr"}
    THEN IF AllOld(t) THEN unlink ELSE skip
    ELSE skip

\* C7: the classification of a symlink whose target exists is decided by the
\* target's type and timestamps alone: defer_unsymlink_check for a directory
\* with mtime <= THRESHOLD, else what the target itself gets (skip or unlink).
\* A symlink is never defer_rmdir_check, and rmdir is never attempted on a
\* symlink.
C7_LinkFollowsTarget ==
    /\ (last.action # "none" /\ last.stats.kind = "lnk" /\ last.follow.err = "ok")
          => last.action = LinkExpected(last.follow)
    /\ last.stats.kind = "lnk" => last.action # defer_rmdir_check
    /\ \A k \in 1..Len(deferred_items) :
          deferred_items[k].action = defer_rmdir_check
              => fs0[PosOf(deferred_items[k].path)].kind = "dir"
    /\ \A i \in 1..Len(oplog) : oplog[i].op = "rmdir" => oplog[i].kind # "lnk"

\* a recent symlink to a directory with mtime = THRESHOLD
C7_Witness ==
    /\ last.stats.kind = "lnk"
    /\ last.stats.mtime > THRESHOLD
    /\ last.follow.err = "ok"
    /\ last.follow.kind = "dir"
    /\ last.follow.mtime = THRESHOLD
    /\ last.action = defer_unsymlink_check


\* the positions whose base name matches an exclusion: .vfs_rsrc_streams_1
\* always, b when daily_clean_tmps_ignore holds b*
NameExcluded(n) == n = VfsName \/ (ignore # <<>> /\ n = "b")

ExcludedPos == { q \in Pos : NameExcluded(q[Len(q)]) }

\* no stat for classification, no classification, no enqueueing and no
\* removal attempt names position q
NeverHandled(q) ==
    /\ \A i \in 1..Len(oplog) : oplog[i].pos # q
    /\ \A k \in 1..Len(deferred_items) : PosOf(deferred_items[k].path) # q
    /\ last.path # <<>> => PosOf(last.path) # q

\* C8 as stated: an entry whose base name matches an exclusion is never
\* statted for classification, classified, enqueued or removed, and is not
\* touched in any other way by the run.
C8_ExcludedUntouched ==
    \A q \in ExcludedPos : NeverHandled(q) /\ fs[q] = fs0[q]

\* C8 as amended: an entry whose base name matches an exclusion is never
\* statted for classification, classified, enqueued or removed; it stays what
\* it was, and if it is not a directory nothing of it changes.  (An excluded
\* directory is still walked: removals inside it and the replay change its
\* timestamps.)
C8_ExcludedNotRemoved ==
    \A q \in ExcludedPos :
        /\ NeverHandled(q)
        /\ fs[q].kind = fs0[q].kind
        /\ fs[q].target = fs0[q].target
        /\ fs0[q].kind # "dir" => fs[q] = fs0[q]

\* the run is over and left an aged file named b and an aged file named
\* .vfs_rsrc_streams_1 in place, b being excluded by the configured pattern
C8_Witness ==
    /\ pc = "done"
    /\ Len(tmp_dirs) = 1
    /\ ignore # <<>>
    /\ fs0[<<"b">>].kind = "reg" /\ AllOld(fs0[<<"b">>])
    /\ fs0[<<VfsName>>].kind = "reg" /\ AllOld(fs0[<<VfsName>>])
    /\ fs[<<"b">>] = fs0[<<"b">>]
    /\ fs[<<VfsName>>] = fs0[<<VfsName>>]

\* C9: at the end of a pass in which no operation failed, no symlink that was
\* classified defer_unsymlink_check is left in place dangling.
C9_NoDanglingLinkLeft ==
    (PassEnded /\ faults = 0) =>
        \A k \in 1..Len(deferred_items) :
            (/\ deferred_items[k].action = defer_unsymlink_check
             /\ fs[PosOf(deferred_items[k].path)].kind = "lnk")
            => os_path_exists(fs, deferred_items[k].path)

\* the paths of the entries removed so far, in order
RECURSIVE RemovedPaths(_)
RemovedPaths(log) ==
    IF log = <<>> THEN <<>>
    ELSE (IF IsRemoval(Head(log)) /\ Head(log).ok THEN <<Head(log).path>> ELSE <<>>)
         \o RemovedPaths(Tail(log))

\* C10: the lines written after the header are, with the verbose flag set,
\* exactly the paths of the entries removed, one line per removal, and none
\* with the flag unset (stated for the runs in which no operation failed).
C10_LinesAreRemovals ==
    faults = 0 =>
        SubSeq(out, 3, Len(out)) = (IF verbose THEN RemovedPaths(oplog) ELSE <<>>)

\* the directory a cache key names, and its times now
KeyTimes(f, path) == <<f[PosOf(path)].atime, f[PosOf(path)].mtime>>

\* C11: first capture wins.  During the pass over a root (scan, drain and
\* replay) no step changes or removes an entry of dir_times: the cache only
\* grows at its end, so the pair stored for a key stays the one of the first
\* call for that key, whatever happens to the directory afterwards.
C11_FirstCaptureWins ==
    [][(pc = "scan" \/ pc = "drain" \/ pc = "replay") =>
          (/\ Len(dir_times') >= Len(dir_times)
           /\ \A i \in 1..Len(dir_times) : dir_times[i] = dir_times'[i])]_vars

\* two entries were removed from the directory of one cache key, one after the
\* other, and the key still holds times that the directory no longer has
C11_Witness ==
    /\ pc \in {"scan", "drain"}
    /\ \E k \in 1..Len(dir_times) :
          /\ PathOk(dir_times[k].path)
          /\ dir_times[k].times # KeyTimes(fs, dir_times[k].path)
          /\ dir_times[k].times = KeyTimes(fs0, dir_times[k].path)
          /\ \E i, j \in 1..Len(oplog) :
                /\ i < j
                /\ oplog[i].root = root_i /\ oplog[j].root = root_i
                /\ IsRemoval(oplog[i]) /\ oplog[i].ok
                /\ IsRemoval(oplog[j]) /\ oplog[j].ok
                /\ Parent(oplog[i].pos) = PosOf(dir_times[k].path)
                /\ Parent(oplog[j].pos) = PosOf(dir_times[k].path)

\* the types process() does not handle: named socket, block device
UnsupportedKinds == {"sock", "blk"}

\* C12: an entry of an unsupported type is classified skip whatever its
\* timestamps, and so is a symlink whose target is such an entry; no removal
\* is attempted on an entry of an unsupported type, none is enqueued, and it
\* stays exactly what it was.
C12_UnsupportedSkipped ==
    /\ (last.action # "none" /\ last.stats.kind \in UnsupportedKinds)
          => last.action = skip
    /\ (/\ last.action # "none"
        /\ last.stats.kind = "lnk"
        /\ last.follow.err = "ok"
        /\ last.follow.kind \in UnsupportedKinds)
          => last.action = skip
    /\ \A i \in 1..Len(oplog) :
          IsRemoval(oplog[i]) => oplog[i].kind \notin UnsupportedKinds
    /\ \A k \in 1..Len(deferred_items) :
          fs0[PosOf(deferred_items[k].path)].kind \notin UnsupportedKinds
    /\ \A q \in Pos : fs0[q].kind \in UnsupportedKinds => fs[q] = fs0[q]

\* the run is over; it statted an aged socket b and a symlink a to it, and
\* both are still there
C12_Witness ==
    /\ pc = "done"
    /\ fs0[<<"b">>].kind = "sock" /\ AllOld(fs0[<<"b">>])
    /\ fs0[<<"a">>].kind = "lnk" /\ fs0[<<"a">>].target = <<"b">>
    /\ fs = fs0
    /\ \E i, j \in 1..Len(oplog) :
          /\ oplog[i].op = "lstat" /\ oplog[i].ok /\ oplog[i].pos = <<"a">>
          /\ oplog[j].op = "lstat" /\ oplog[j].ok /\ oplog[j].pos = <<"b">>

\* the two lines printed at lines 109-110
Header == <<"", "Removing old temporary files:">>

\* C13 as stated: a run with no configured root changes nothing in the file
\* system and writes no output line at all.
C13_NoRootsNoOutput ==
    (tmp_dirs = <<>> /\ pc \in {"start", "root", "done"}) =>
        /\ fs = fs0
        /\ out = <<>>

\* C13 as amended: a run with no configured root attempts no unlink, rmdir or
\* utime and changes nothing in the file system; the only lines it writes are
\* the two header lines, and it ends having written exactly those.
C13_NoRootsOnlyHeader ==
    (tmp_dirs = <<>> /\ pc \in {"start", "root", "done"}) =>
        /\ fs = fs0
        /\ oplog = <<>>
        /\ dir_times = <<>>
        /\ deferred_items = <<>>
        /\ out = (IF pc = "start" THEN <<>> ELSE Header)

\* a run with no root has ended, over a tree that holds an aged file
C13_Witness ==
    /\ tmp_dirs = <<>>
    /\ pc = "done"
    /\ fs0[<<"a">>].kind = "reg" /\ AllOld(fs0[<<"a">>])
    /\ fs[<<"a">>] = fs0[<<"a">>]
    /\ out = Header

FileKinds == {"reg", "fifo", "chr"}

\* what the classification c of an entry must have seen for the successful
\* removal e of that entry
RemovalJustified(c, e) ==
    IF e.op = "rmdir"
    THEN /\ c.stats.kind = "dir"
         /\ c.stats.mtime <= THRESHOLD
         /\ e.empty
    ELSE IF e.phase = "scan"
    THEN \/ c.stats.kind \in FileKinds /\ AllOld(c.stats)
         \/ /\ c.stats.kind = "lnk"
            /\ \/ c.follow.err = "ENOENT"
               \/ /\ c.follow.err = "ok"
                  /\ c.follow.kind \in FileKinds
                  /\ AllOld(c.follow)
    ELSE /\ c.stats.kind = "lnk"
         /\ c.follow.err = "ok"
         /\ c.follow.kind = "dir"
         /\ c.follow.mtime <= THRESHOLD
         /\ faults = 0 => ~e.resolves

\* C14: only aged entries are removed.  Every entry is statted (without
\* following) at most once in a pass, and every entry removed was classified
\* before, in the same pass, from that stat: a file, pipe or character device
\* with mtime, ctime and atime <= THRESHOLD; a directory with mtime <=
\* THRESHOLD that was empty when rmdir was called; or a symlink whose target
\* was missing, was such an aged file, or was a directory with mtime <=
\* THRESHOLD and the link did not resolve at the recheck (a failing stat of the
\* recheck counts as not resolving).
C14_OnlyAgedRemoved ==
    /\ \A i, j \in 1..Len(oplog) :
          (/\ i # j
           /\ oplog[i].op = "lstat" /\ oplog[j].op = "lstat"
           /\ oplog[i].root = oplog[j].root)
          => oplog[i].pos # oplog[j].pos
    /\ \A j \in 1..Len(oplog) :
          (IsRemoval(oplog[j]) /\ oplog[j].ok) =>
              \E i \in 1..(j - 1) :
                  /\ oplog[i].op = "process"
                  /\ oplog[i].root = oplog[j].root
                  /\ oplog[i].pos = oplog[j].pos
                  /\ oplog[i].stats.kind = oplog[j].kind
                  /\ RemovalJustified(oplog[i], oplog[j])
    /\ \A q \in Pos :
          (fs0[q].kind = "dir" /\ fs0[q].mtime > THRESHOLD) => fs[q].kind = "dir"

\* a pass removed an aged file and then, the directory being empty, the aged
\* directory that held it
C14_Witness ==
    /\ PassEnded
    /\ \E i, j \in 1..Len(oplog) :
          /\ i < j
          /\ oplog[i].op = "unlink" /\ oplog[i].ok /\ oplog[i].kind = "reg"
          /\ oplog[j].op = "rmdir" /\ oplog[j].ok
          /\ Parent(oplog[i].pos) = oplog[j].pos

\* C15: snapshot before mutation.  In a pass without failing operations, the
\* directory of every entry on which unlink or rmdir was attempted has an entry
\* in dir_times; every entry of dir_times holds the times its directory had
\* before the pass removed anything from it; and no directory has two keys.
C15_SnapshotBeforeMutation ==
    (faults = 0 /\ pc \in {"scan", "drain", "replay"}) =>
        /\ \A j \in 1..Len(oplog) :
              (IsRemoval(oplog[j]) /\ oplog[j].root = root_i) =>
                  \E k \in 1..Len(dir_times) :
                      PosOf(dir_times[k].path) = Parent(oplog[j].pos)
        /\ \A k \in 1..Len(dir_times) :
              pre[PosOf(dir_times[k].path)] # NoTimes =>
                  dir_times[k].times = pre[PosOf(dir_times[k].path)]
        /\ \A k1, k2 \in 1..Len(dir_times) :
              k1 # k2 => PosOf(dir_times[k1].path) # PosOf(dir_times[k2].path)

\* C16: a failing stat inside cache_timestamps is tolerated in both phases.
\* In the drain the call of cache_timestamps (line 150) is the only operation
\* that can end the run, so the claim says there: no step of the drain ends
\* the run.
C16_CacheFailureTolerated ==
    [][pc = "drain" => pc' # "crashed"]_vars

\* the directories os.walk has still to list: those pending and every
\* directory below them
RECURSIVE DirsToList(_)
DirsToList(paths) ==
    IF paths = <<>> THEN 0
    ELSE 1 + Cardinality({ q \in Pos : /\ IsProperDescendant(q, PosOf(Head(paths)))
                                         /\ fs[q].kind = "dir" })
           + DirsToList(Tail(paths))

\* the work left, in lexicographic order: roots to go, phases of the pass to
\* go, directories/deferred items/cache entries to go, items of the listing
Rank ==
    IF pc \in {"done", "crashed"} THEN <<0, 0, 0, 0>>
    ELSE << Len(tmp_dirs) + 1 - root_i,
            CASE pc = "scan" -> 3 [] pc = "drain" -> 2 [] pc = "replay" -> 1
              [] OTHER -> 4,
            CASE pc = "scan" -> DirsToList(pending_dirs)
              [] pc = "drain" -> drain_i
              [] pc = "replay" -> Len(dir_times) + 1 - replay_i
              [] OTHER -> 0,
            Len(items) >>

LexLess(a, b) ==
    \E k \in 1..Len(a) : a[k] < b[k] /\ \A m \in 1..(k - 1) : a[m] = b[m]

\* C17: termination.  The following stat handed to the inner call of process()
\* is never that of a symlink, so there is no second recursive call; os.walk
\* never yields a directory reached through a symlink; a run that has neither
\* completed nor raised can always take a step; and every step of the run
\* strictly decreases the work left, which is never negative: every run ends,
\* on every tree, those with symlink cycles and symlinks to ancestors included.
C17_Terminates ==
    /\ [](last.follow.err = "ok" => last.follow.kind # "lnk")
    /\ [](dir_path # <<>> => fs0[PosOf(dir_path)].kind = "dir")
    /\ [](\A r \in {Rank} : \A k \in 1..Len(r) : r[k] >= 0)
    /\ [](pc \in {"done", "crashed"} \/ ENABLED Next)
    /\ [][\E after \in {Rank'}, before \in {Rank} : LexLess(after, before)]_vars

\* a run has completed on a tree in which a/a is a symlink to its own parent
\* directory a, and the link was classified
C17_Witness ==
    /\ pc = "done"
    /\ fs0[<<"a">>].kind = "dir"
    /\ fs0[<<"a", "a">>].kind = "lnk"
    /\ fs0[<<"a", "a">>].target = <<"a">>
    /\ \E i \in 1..Len(oplog) :
          oplog[i].op = "process" /\ oplog[i].pos = <<"a", "a">>

\* C18: the configured root itself is never statted for classification, never
\* classified, never enqueued, and no unlink or rmdir is attempted on it; it is
\* still a directory in every reachable state, even when it is aged and the
\* pass has removed everything inside it.
C18_RootNeverHandled ==
    /\ fs[RootPos].kind = "dir"
    /\ \A i \in 1..Len(oplog) : oplog[i].pos # RootPos /\ oplog[i].pos \in Pos
    /\ \A k \in 1..Len(deferred_items) : PosOf(deferred_items[k].path) # RootPos
    /\ last.path # <<>> => PosOf(last.path) # RootPos

\* the pass over an aged root has ended and has removed everything that was
\* inside the root
C18_Witness ==
    /\ PassEnded
    /\ fs0[RootPos].mtime <= THRESHOLD
    /\ Children(fs0, RootPos) # {}
    /\ Children(fs, RootPos) = {}
    /\ fs[RootPos].kind = "dir"

\* the frame of the run: an entry that is gone was removed by a successful
\* unlink or rmdir of its own path, a path root/.../name the walk had statted
\* before in the same pass; an entry that is not a directory and is not gone
\* is unchanged (so only directories change timestamps, and nothing is
\* removed or changed through a symlink); and os.walk yields no directory
\* that is reached through a symlink
RunFrame ==
    /\ \A q \in Pos :
          (fs0[q].kind # "none" /\ fs[q].kind # fs0[q].kind) =>
              /\ fs[q] = NoNode
              /\ \E i, j \in 1..Len(oplog) :
                    /\ i < j
                    /\ oplog[i].op = "lstat" /\ oplog[i].ok
                    /\ IsRemoval(oplog[j]) /\ oplog[j].ok
                    /\ oplog[i].root = oplog[j].root
                    /\ oplog[i].path = oplog[j].path
                    /\ oplog[j].pos = q
                    /\ oplog[j].kind = fs0[q].kind
                    /\ oplog[j].path = tmp_dirs[oplog[j].root]
                           \o (IF tmp_dirs[oplog[j].root][Len(tmp_dirs[oplog[j].root])] = SEP
                               THEN <<>> ELSE <<SEP>>)
                           \o [k \in 1..(2 * Len(q) - 1) |->
                                 IF k % 2 = 1 THEN q[(k + 1) \div 2] ELSE SEP]
    /\ \A q \in Pos :
          (fs0[q].kind \notin {"none", "dir"} /\ fs[q].kind # "none") => fs[q] = fs0[q]
    /\ fs[RootPos].kind = "dir"
    /\ dir_path # <<>> => fs0[PosOf(dir_path)].kind = "dir"

\* the calls of process() in the current pass that returned skip
SkippedNow == { i \in 1..Len(oplog) : /\ oplog[i].op = "process"
                                        /\ oplog[i].root = CurRoot
                                        /\ oplog[i].action = skip }

\* C19 as stated: the frame of the run, and every entry classified skip is
\* left exactly as it was (compared at the end of a pass in which no operation
\* failed: the node and, for a directory, what it holds).
C19_SkippedLeftAsWas ==
    /\ RunFrame
    /\ (PassEnded /\ faults = 0) =>
          \A i \in SkippedNow :
              /\ fs[oplog[i].pos] = fs0[oplog[i].pos]
              /\ Children(fs, oplog[i].pos) = Children(fs0, oplog[i].pos)

\* C19 as amended: the frame of the run, and every entry classified skip is
\* never removed; if it is not a directory it is left exactly as it was.  (A
\* skipped directory is still walked: it can lose entries, and its timestamps
\* are changed by those removals and rewritten by the replay.)
C19_SkippedNotRemoved ==
    /\ RunFrame
    /\ \A i \in SkippedNow :
          /\ fs[oplog[i].pos].kind = oplog[i].stats.kind
          /\ fs[oplog[i].pos].target = fs0[oplog[i].pos].target
          /\ oplog[i].stats.kind # "dir" => fs[oplog[i].pos] = fs0[oplog[i].pos]

\* a pass without failures has ended: the directory a, classified skip for its
\* recent mtime, is still there with its access and modification time, but the
\* aged file a/a was removed from it
C19_Witness ==
    /\ PassEnded /\ faults = 0
    /\ \E i \in SkippedNow : oplog[i].pos = <<"a">> /\ oplog[i].stats.kind = "dir"
    /\ fs0[<<"a", "a">>].kind = "reg"
    /\ fs[<<"a", "a">>].kind = "none"
    /\ fs[<<"a">>].kind = "dir"
    /\ fs[<<"a">>].mtime = fs0[<<"a">>].mtime
    /\ fs[<<"a">>].atime = fs0[<<"a">>].atime

\* C20: idempotence.  When the same root is configured twice and no operation
\* fails, the second pass removes nothing: the first pass has left a fixed
\* point (stated for the removals; the timestamps are not needed to refute it).
C20_SecondPassRemovesNothing ==
    (faults = 0 /\ Len(tmp_dirs) = 2 /\ tmp_dirs[1] = tmp_dirs[2]) =>
        \A i \in 1..Len(oplog) :
            oplog[i].root = 2 => ~(IsRemoval(oplog[i]) /\ oplog[i].ok)

====
